---- MODULE Spec2Model ----
(***************************************************************************)
(* Model of test2.py, the Streamlit dashboard over the room-hire sheet.    *)
(*                                                                         *)
(* One script run of test2.py is one step.  A run is started by the        *)
(* session opening, by a click on a sidebar navigation button, by a change *)
(* of a multiselect, or by st.rerun().  The state holds the spreadsheet,   *)
(* st.session_state, the multiselects' widget state and everything the     *)
(* last run computed and emitted.                                          *)
(*                                                                         *)
(* The logo file and the Streamlit and plotly calls are taken to succeed;  *)
(* pd.read_excel is the one call whose failure is modelled.                *)
(*                                                                         *)
(* Numbers: pandas works on IEEE doubles.  The model keeps every float as  *)
(* an exact fraction [num, den] in lowest terms, with NaN as 0/0, so that  *)
(* means and ratios are compared exactly.                                  *)
(***************************************************************************)
EXTENDS Integers, Sequences, FiniteSets, TLC

VARIABLES
    xlsx,           \* rows of sheet "Raw data" of CCH1.0.xlsx
    present,        \* whether pd.read_excel can currently read the sheet
    session_state,  \* st.session_state: a record with at most the key "page"
    widgets,        \* the four multiselects' stored values (no key: no state)
    run,            \* the last script run: what started it, how it ended, its output
    pending         \* the button whose st.rerun() request is waiting, or "none"

vars == <<xlsx, present, session_state, widgets, run, pending>>

-----------------------------------------------------------------------------
(* Bounds and program constants *)

\* longest sheet the model loads
MaxRows == 3

\* nrows=100 of pd.read_excel
nrows == 100

\* head(5) of top_rooms
HeadN == 5

-----------------------------------------------------------------------------
(* The sheet *)

Row(org, tod, loc, tier, cap, price, cpp, dur, name) ==
    [Organisation_Name |-> org, Time_of_day |-> tod, Location |-> loc,
     Capacity_tier |-> tier, Capacity |-> cap, Price_per_hour |-> price,
     Cost_per_person |-> cpp, Minimum_Duration_per_hour |-> dur,
     Names_of_Room |-> name]

\* The listings a sheet is drawn from: two values in each categorical
\* column, two rows sharing one price, and ratios whose mean differs from
\* the ratio of the means.
Listings ==
    { Row("OrgA", "Day",     "Central", "Small",  2, 10, 5, 1, "Room1"),
      Row("OrgA", "Evening", "Central", "Small",  4, 20, 5, 2, "Room2"),
      Row("OrgB", "Day",     "North",   "Large",  5, 20, 4, 1, "Room3"),
      Row("OrgB", "Evening", "North",   "Large", 10, 30, 3, 2, "Room4") }

\* Sheets: every listing at most once, in any order, at most MaxRows rows.
Sheets ==
    UNION { { s \in [1..n -> Listings] : \A i, j \in 1..n : s[i] = s[j] => i = j }
            : n \in 0..MaxRows }

FilterColumns == <<"Organisation_Name", "Time_of_day", "Location", "Capacity_tier">>

\* String order of the categorical values (Python's str comparison).
Collation == <<"Central", "Day", "Evening", "Large", "North", "OrgA", "OrgB", "Small">>

StrRank(v) == CHOOSE i \in DOMAIN Collation : Collation[i] = v

\* The order groupby sorts a key column by: numbers by value, strings by
\* collation.
KeyRank(key, v) ==
    IF key = "Minimum_Duration_per_hour" THEN v ELSE StrRank(v)

-----------------------------------------------------------------------------
(* Floats as exact fractions *)

RECURSIVE GCD(_, _)
GCD(a, b) == IF b = 0 THEN a ELSE GCD(b, a % b)

NaN == [num |-> 0, den |-> 0]

IsNaN(x) == x.den = 0

Frac(n, d) ==
    IF d = 0 THEN NaN
    ELSE LET g == GCD(n, d) IN [num |-> n \div g, den |-> d \div g]

FromInt(n) == [num |-> n, den |-> 1]

FAdd(x, y) ==
    IF IsNaN(x) \/ IsNaN(y) THEN NaN
    ELSE Frac(x.num * y.den + y.num * x.den, x.den * y.den)

\* Series / Series, element by element (line 94)
SeriesDiv(a, b) == [i \in DOMAIN a |-> Frac(a[i], b[i])]

RECURSIVE SeriesSum(_)
SeriesSum(s) ==
    IF s = <<>> THEN FromInt(0) ELSE FAdd(s[1], SeriesSum(Tail(s)))

\* Series.mean(): NaN over no rows, else sum / count
SeriesMean(s) ==
    IF Len(s) = 0 THEN NaN
    ELSE LET t == SeriesSum(s) IN Frac(t.num, t.den * Len(s))

\* a column of a frame
Column(df, col) == [i \in DOMAIN df |-> df[i][col]]

FloatColumn(df, col) == [i \in DOMAIN df |-> FromInt(df[i][col])]

\* f"£{x:.2f}": "£nan" for NaN, else the value rounded to two decimals
\* (round half to even on the exact value; the binary representation error
\* of a double is not modelled), held in pence.  text is "nan" or "fixed".
FormatPounds(x) ==
    IF IsNaN(x) THEN [text |-> "nan", pence |-> 0]
    ELSE LET n == 100 * x.num
             q == n \div x.den
             r == n % x.den
         IN [text |-> "fixed",
             pence |-> IF 2 * r > x.den THEN q + 1
                       ELSE IF 2 * r < x.den THEN q
                       ELSE IF q % 2 = 0 THEN q ELSE q + 1]

-----------------------------------------------------------------------------
(* Data Loader, Filter Set, Selector *)

\* read_excel wrapped so that a failed read yields an empty frame
read_excel_SwallowsError(file, readable) ==
    IF ~readable THEN [raised |-> FALSE, df |-> <<>>]
    ELSE [raised |-> FALSE,
          df |-> SubSeq(file, 1, IF Len(file) < nrows THEN Len(file) ELSE nrows)]

\* pd.read_excel: raises when the workbook, the sheet or the column range
\* cannot be read; else the first nrows rows of the sheet.
read_excel(file, readable) ==
    IF ~readable THEN [raised |-> TRUE, df |-> <<>>]
    ELSE [raised |-> FALSE,
          df |-> SubSeq(file, 1, IF Len(file) < nrows THEN Len(file) ELSE nrows)]

\* df[col].unique(): the distinct values of a column (their order does not
\* reach isin, so the model keeps a set).
unique(df, col) == {df[i][col] : i \in DOMAIN df}

\* multiselect without its default= argument: nothing selected at first
multiselect_NoDefault(w, col, options, default) ==
    IF col \in DOMAIN w THEN w[col] ELSE {}

\* st.sidebar.multiselect(label, options, default): the stored value of the
\* widget when it has one, else the default.
multiselect(w, col, options, default) ==
    IF col \in DOMAIN w THEN w[col] ELSE default

\* The four multiselects, each over the unfiltered frame.
SidebarFilters(df, w) ==
    [c \in {FilterColumns[i] : i \in DOMAIN FilterColumns} |->
        multiselect(w, c, unique(df, c), unique(df, c))]

isin(v, values) == v \in values

\* the selection with the Location mask left out
Selection_DropsLocation(df, sel) ==
    SelectSeq(df, LAMBDA r :
        /\ r.Organisation_Name \in sel.Organisation_Name
        /\ r.Time_of_day \in sel.Time_of_day
        /\ r.Capacity_tier \in sel.Capacity_tier)

\* df[mask1 & mask2 & mask3 & mask4]
Selection(df, sel) ==
    SelectSeq(df, LAMBDA r :
        /\ isin(r.Organisation_Name, sel.Organisation_Name)
        /\ isin(r.Time_of_day, sel.Time_of_day)
        /\ isin(r.Location, sel.Location)
        /\ isin(r.Capacity_tier, sel.Capacity_tier))

-----------------------------------------------------------------------------
(* Aggregator *)

\* the keys of a groupby, sorted ascending
SortedKeys(S, key) ==
    [i \in 1..Cardinality(S) |->
        CHOOSE v \in S :
            Cardinality({w \in S : KeyRank(key, w) < KeyRank(key, v)}) = i - 1]

RowsWith(df, col, v) == SelectSeq(df, LAMBDA r : r[col] = v)

\* a grouped mean that divides each group's sum by the frame's row count
GroupbyMean_DividesByFrame(df, key) ==
    LET keys == SortedKeys(unique(df, key), key)
    IN [i \in DOMAIN keys |->
          [key |-> keys[i],
           Price_per_hour |->
               LET t == SeriesSum(FloatColumn(RowsWith(df, key, keys[i]),
                                              "Price_per_hour"))
               IN Frac(t.num, t.den * Len(df))]]

\* df.groupby(key)["Price_per_hour"].mean().reset_index()
GroupbyMean(df, key) ==
    LET keys == SortedKeys(unique(df, key), key)
    IN [i \in DOMAIN keys |->
          [key |-> keys[i],
           Price_per_hour |->
               SeriesMean(FloatColumn(RowsWith(df, key, keys[i]), "Price_per_hour"))]]

\* df.pivot_table(index="Capacity_tier", columns="Time_of_day",
\*                values="Cost_per_person", aggfunc="mean")
pivot_table(df) ==
    LET index == unique(df, "Capacity_tier")
        columns == unique(df, "Time_of_day")
    IN [index |-> SortedKeys(index, "Capacity_tier"),
        columns |-> SortedKeys(columns, "Time_of_day"),
        values |-> [cell \in index \X columns |->
            SeriesMean(FloatColumn(
                SelectSeq(df, LAMBDA r : r.Capacity_tier = cell[1]
                                         /\ r.Time_of_day = cell[2]),
                "Cost_per_person"))]]

\* df.sort_values(by="Price_per_hour", ascending=False): kind is left at
\* its default, "quicksort", which pandas documents as not stable, so rows
\* of equal price come out in an order the numpy build decides (its scalar
\* introsort insertion-sorts up to 17 rows and partitions from 18 on).
\* The model does not pick one build: every order the call may return, that
\* is every arrangement of the rows by descending price.
sort_values(df) ==
    LET n == Len(df)
        Orders == { p \in [1..n -> 1..n] :
                      /\ \A i, j \in 1..n : p[i] = p[j] => i = j
                      /\ \A i, j \in 1..n :
                            i < j => df[p[i]].Price_per_hour >= df[p[j]].Price_per_hour }
    IN { [i \in 1..n |-> df[p[i]]] : p \in Orders }

head(df, n) == SubSeq(df, 1, IF Len(df) < n THEN Len(df) ELSE n)

\* line 92
avg_price_by_tier(df_selection) == GroupbyMean(df_selection, "Capacity_tier")

\* line 93
avg_price_per_hour(df_selection) ==
    SeriesMean(FloatColumn(df_selection, "Price_per_hour"))

\* mean(Price_per_hour) / mean(Capacity) in place of the mean of the ratios
avg_price_per_person_RatioOfMeans(df_selection) ==
    IF Len(df_selection) = 0 THEN NaN
    ELSE LET p == SeriesSum(FloatColumn(df_selection, "Price_per_hour"))
             c == SeriesSum(FloatColumn(df_selection, "Capacity"))
         IN Frac(p.num * c.den, p.den * c.num)

\* line 94: the row-wise ratio first, then its mean
avg_price_per_person(df_selection) ==
    SeriesMean(SeriesDiv(Column(df_selection, "Price_per_hour"),
                         Column(df_selection, "Capacity")))

\* line 105
avg_price_by_time(df_selection) == GroupbyMean(df_selection, "Time_of_day")

\* lines 130-133
heatmap_data(df_selection) == pivot_table(df_selection)

\* line 146: every list the call can return
top_rooms(df_selection) == { head(s, HeadN) : s \in sort_values(df_selection) }

\* line 153
avg_price_by_duration(df_selection) ==
    GroupbyMean(df_selection, "Minimum_Duration_per_hour")

-----------------------------------------------------------------------------
(* The script *)

\* the page set to Home in every run, without the "not in" test
PageNavigationState_AlwaysHome(ss) == [page |-> "Home"]

\* lines 20-21
PageNavigationState(ss) ==
    IF "page" \in DOMAIN ss THEN ss ELSE [page |-> "Home"]

\* the About Us branch without its assignment to session_state.page
SidebarNavigation_AboutKeepsPage(ss, clicked) ==
    IF clicked = "home_btn" THEN
        [session_state |-> [page |-> "Home"], rerun |-> TRUE,
         elements |-> <<"nav_heading", "home_btn">>]
    ELSE IF clicked = "about_btn" THEN
        [session_state |-> ss, rerun |-> TRUE,
         elements |-> <<"nav_heading", "home_btn", "about_btn">>]
    ELSE
        [session_state |-> ss, rerun |-> FALSE,
         elements |-> <<"nav_heading", "home_btn", "about_btn", "sidebar_rule">>]

\* the two branches without their st.rerun(): the run goes on to the page
SidebarNavigation_NoRerun(ss, clicked) ==
    [session_state |-> IF clicked = "home_btn" THEN [page |-> "Home"]
                       ELSE IF clicked = "about_btn" THEN [page |-> "About"]
                       ELSE ss,
     rerun |-> FALSE,
     elements |-> <<"nav_heading", "home_btn", "about_btn", "sidebar_rule">>]

\* lines 25-33: the sidebar heading and the two buttons.  A button returns
\* True in the run its click started; the branch sets the page and calls
\* st.rerun(), which stops this run there and requests another.
SidebarNavigation(ss, clicked) ==
    IF clicked = "home_btn" THEN
        [session_state |-> [page |-> "Home"], rerun |-> TRUE,
         elements |-> <<"nav_heading", "home_btn">>]
    ELSE IF clicked = "about_btn" THEN
        [session_state |-> [page |-> "About"], rerun |-> TRUE,
         elements |-> <<"nav_heading", "home_btn", "about_btn">>]
    ELSE
        [session_state |-> ss, rerun |-> FALSE,
         elements |-> <<"nav_heading", "home_btn", "about_btn", "sidebar_rule">>]

\* what the Home branch emits before the load, and after it
HomeSidebarHead == <<"sidebar_logo", "sidebar_space">>

HomeBody ==
    <<"filter_header", "ms_Organisation_Name", "ms_Time_of_day", "ms_Location",
      "ms_Capacity_tier", "title", "space", "metric_tier", "metric_person",
      "metric_hour", "table_tier", "rule", "fig1", "findings1", "fig2",
      "findings2", "fig5", "fig3", "fig6", "fig7">>

\* lines 38-156: every outcome of the Home branch.  An exception of
\* read_excel is not caught: the branch ends there and Streamlit shows the
\* exception.
HomePage(file, readable, w) ==
    LET loaded == read_excel(file, readable)
        df == loaded.df
        sel == SidebarFilters(df, w)
        df_selection == Selection(df, sel)
    IN IF loaded.raised
       THEN { [raised |-> TRUE, elements |-> HomeSidebarHead \o <<"exception">>,
               home |-> <<>>] }
       ELSE { [raised |-> FALSE, elements |-> HomeSidebarHead \o HomeBody,
               home |-> << [df |-> df,
                            options |-> [c \in DOMAIN sel |-> unique(df, c)],
                            selected |-> sel,
                            df_selection |-> df_selection,
                            avg_price_by_tier |-> avg_price_by_tier(df_selection),
                            avg_price_per_hour |-> avg_price_per_hour(df_selection),
                            avg_price_per_person |-> avg_price_per_person(df_selection),
                            metric_person |->
                                FormatPounds(avg_price_per_person(df_selection)),
                            metric_hour |->
                                FormatPounds(avg_price_per_hour(df_selection)),
                            avg_price_by_time |-> avg_price_by_time(df_selection),
                            heatmap_data |-> heatmap_data(df_selection),
                            top_rooms |-> top,
                            avg_price_by_duration |->
                                avg_price_by_duration(df_selection)] >>]
              : top \in top_rooms(df_selection) }

\* lines 161-189
AboutPage == <<"about_title", "about_text">>

\* lines 191-211
Footer == <<"footer">>

\* One run of the script, top to bottom: every way it can end.  trigger is
\* what started it, after the button whose rerun request it serves.
\* Streamlit keeps a multiselect's value across the runs that render it and
\* drops it after a completed run that did not; the elements of a run
\* replace those of the run before.
Script(trigger, after, ss, w, file, readable) ==
    LET ss1 == PageNavigationState(ss)
        nav == SidebarNavigation(ss1, trigger)
        ss2 == nav.session_state
    IN IF nav.rerun THEN
           { [session_state |-> ss2, widgets |-> w, pending |-> trigger,
              run |-> [trigger |-> trigger, after |-> after, outcome |-> "rerun",
                       branch |-> "none", elements |-> nav.elements,
                       home |-> <<>>]] }
       ELSE IF ss2.page = "Home" THEN
           { [session_state |-> ss2,
              widgets |-> IF h.raised THEN w ELSE h.home[1].selected,
              pending |-> "none",
              run |-> [trigger |-> trigger, after |-> after,
                       outcome |-> IF h.raised THEN "failed" ELSE "completed",
                       branch |-> "Home",
                       elements |-> IF h.raised THEN nav.elements \o h.elements
                                    ELSE nav.elements \o h.elements \o Footer,
                       home |-> h.home]]
             : h \in HomePage(file, readable, w) }
       ELSE IF ss2.page = "About" THEN
           { [session_state |-> ss2, widgets |-> <<>>, pending |-> "none",
              run |-> [trigger |-> trigger, after |-> after, outcome |-> "completed",
                       branch |-> "About",
                       elements |-> nav.elements \o AboutPage \o Footer,
                       home |-> <<>>]] }
       ELSE
           { [session_state |-> ss2, widgets |-> <<>>, pending |-> "none",
              run |-> [trigger |-> trigger, after |-> after, outcome |-> "completed",
                       branch |-> "none", elements |-> nav.elements \o Footer,
                       home |-> <<>>]] }

-----------------------------------------------------------------------------
(* The session *)

NoRun ==
    [trigger |-> "none", after |-> "none", outcome |-> "none", branch |-> "none",
     elements |-> <<>>, home |-> <<>>]

Init ==
    /\ xlsx \in Sheets
    /\ present \in BOOLEAN
    /\ session_state = <<>>
    /\ widgets = <<>>
    /\ run = NoRun
    /\ pending = "none"

Finish(r) ==
    /\ session_state' = r.session_state
    /\ widgets' = r.widgets
    /\ run' = r.run
    /\ pending' = r.pending
    /\ UNCHANGED <<xlsx, present>>

\* the browser opens the session: the first run
OpenSession ==
    /\ run.outcome = "none"
    /\ \E r \in Script("start", "none", session_state, widgets, xlsx, present) :
          Finish(r)

\* a click on a sidebar button shown by the last run
ClickHome ==
    /\ run.outcome \in {"completed", "failed"}
    /\ \E r \in Script("home_btn", "none", session_state, widgets, xlsx, present) :
          Finish(r)

ClickAbout ==
    /\ run.outcome \in {"completed", "failed"}
    /\ \E r \in Script("about_btn", "none", session_state, widgets, xlsx, present) :
          Finish(r)

\* the run st.rerun() asked for
Rerun ==
    /\ pending # "none"
    /\ \E r \in Script("rerun", pending, session_state, widgets, xlsx, present) :
          Finish(r)

\* the user changes one multiselect shown by the last run
ChangeFilter ==
    /\ run.outcome = "completed"
    /\ run.branch = "Home"
    /\ \E c \in DOMAIN widgets :
       \E S \in SUBSET run.home[1].options[c] :
          /\ S # widgets[c]
          /\ \E r \in Script("filter", "none", session_state,
                             [widgets EXCEPT ![c] = S], xlsx, present) :
                Finish(r)

\* the workbook is removed or put back between runs
SheetChange ==
    /\ present' = ~present
    /\ UNCHANGED <<xlsx, session_state, widgets, run, pending>>

Next ==
    \/ OpenSession
    \/ ClickHome
    \/ ClickAbout
    \/ Rerun
    \/ ChangeFilter
    \/ SheetChange

Spec == Init /\ [][Next]_vars

-----------------------------------------------------------------------------
(* Properties *)

\* the last run rendered the Home page to its end
HomeDone == run.outcome = "completed" /\ run.branch = "Home"

\* the elements only the Home branch emits once the frame is loaded
DataElements == {HomeBody[i] : i \in DOMAIN HomeBody}

Shown(r) == {r.elements[i] : i \in DOMAIN r.elements}

Admitted(r, sel) == \A c \in DOMAIN sel : r[c] \in sel[c]

\* the j-th smallest member of a set of indices
Nth(K, j) == CHOOSE i \in K : Cardinality({k \in K : k <= i}) = j

\* C1: the Filtered Subset holds exactly the rows of the dataset whose value
\* in each of the four categorical columns is in that column's admitted set,
\* in dataset order, and no other row.
C1_SelectorIff ==
    HomeDone =>
        LET df == run.home[1].df
            sub == run.home[1].df_selection
            K == {i \in DOMAIN df : Admitted(df[i], run.home[1].selected)}
        IN /\ DOMAIN run.home[1].selected =
                  {"Organisation_Name", "Time_of_day", "Location", "Capacity_tier"}
           /\ Len(sub) = Cardinality(K)
           /\ \A j \in DOMAIN sub : sub[j] = df[Nth(K, j)]

\* a selection that keeps the first and the third row of three and drops
\* the second
C1_Witness ==
    /\ HomeDone
    /\ Len(run.home[1].df) = 3
    /\ run.home[1].df_selection = <<run.home[1].df[1], run.home[1].df[3]>>

\* C3: with each admitted set equal to the column's full distinct-value set,
\* which is what the first Home render selects, the Filtered Subset is the
\* whole loaded sheet, row for row.
C3_FullSelectionKeepsAll ==
    /\ (HomeDone /\ run.trigger = "start") =>
          \A c \in DOMAIN run.home[1].selected :
              run.home[1].selected[c] = {xlsx[i][c] : i \in DOMAIN xlsx}
    /\ (HomeDone /\ \A c \in DOMAIN run.home[1].selected :
                      run.home[1].selected[c] = {xlsx[i][c] : i \in DOMAIN xlsx}) =>
          run.home[1].df_selection = xlsx

\* the first render of a session over a sheet of at least two rows
C3_Witness ==
    /\ HomeDone
    /\ run.trigger = "start"
    /\ Len(xlsx) >= 2
    /\ run.home[1].df_selection = xlsx

\* C4: a session starts at Home; the About button sets the state to About
\* and the run that follows renders the About page, with no filter control,
\* no chart and no data load; the Home button sets it back to Home; the
\* state is never anything but Home or About.
C4_Navigation ==
    /\ "page" \in DOMAIN session_state => session_state.page \in {"Home", "About"}
    /\ run.outcome # "none" => "page" \in DOMAIN session_state
    /\ run.trigger = "start" => session_state.page = "Home" /\ run.branch = "Home"
    /\ run.trigger = "about_btn" => session_state.page = "About"
    /\ run.trigger = "home_btn" => session_state.page = "Home"
    /\ (run.trigger = "rerun" /\ run.after = "about_btn") =>
          /\ session_state.page = "About"
          /\ run.outcome = "completed"
          /\ run.branch = "About"
          /\ Shown(run) \cap (DataElements \cup {"sidebar_logo"}) = {}
          /\ run.home = <<>>
    /\ (run.trigger = "rerun" /\ run.after = "home_btn") =>
          session_state.page = "Home" /\ run.branch = "Home"

\* the About page on display after a click on its button
C4_Witness ==
    /\ run.trigger = "rerun"
    /\ run.after = "about_btn"
    /\ run.branch = "About"
    /\ "about_text" \in Shown(run)

\* sums and products over the rows of a frame, for stating the means
RECURSIVE SumOf(_, _)
SumOf(df, col) == IF df = <<>> THEN 0 ELSE df[1][col] + SumOf(Tail(df), col)

RECURSIVE ProductOf(_, _)
ProductOf(df, col) == IF df = <<>> THEN 1 ELSE df[1][col] * ProductOf(Tail(df), col)

\* the sum of price/capacity over the rows, times the product of the capacities
RECURSIVE ScaledRatioSum(_, _)
ScaledRatioSum(df, scale) ==
    IF df = <<>> THEN 0
    ELSE (df[1].Price_per_hour * scale) \div df[1].Capacity
         + ScaledRatioSum(Tail(df), scale)

\* whether mean(price / capacity) and mean(price) / mean(capacity) differ
RatioOfMeansDiffers(df) ==
    LET D == ProductOf(df, "Capacity")
    IN ScaledRatioSum(df, D) * SumOf(df, "Capacity")
           # SumOf(df, "Price_per_hour") * Len(df) * D

\* C6: over a non-empty Filtered Subset the average price per person is the
\* mean of the row-wise ratios Price per Hour / Capacity, and the metric
\* shows that mean to the nearest penny, also where it differs from
\* mean(Price per Hour) / mean(Capacity).
C6_MeanOfRatios ==
    (HomeDone /\ run.home[1].df_selection # <<>>) =>
        LET sub == run.home[1].df_selection
            avg == run.home[1].avg_price_per_person
            shown == run.home[1].metric_person
            D == ProductOf(sub, "Capacity")
            diff == 100 * avg.num - shown.pence * avg.den
        IN /\ avg.den > 0
           /\ avg.num * Len(sub) * D = avg.den * ScaledRatioSum(sub, D)
           /\ shown.text = "fixed"
           /\ 2 * diff <= avg.den
           /\ -2 * diff <= avg.den

\* a subset of two or more rows on which the two averages differ
C6_Witness ==
    /\ HomeDone
    /\ Len(run.home[1].df_selection) >= 2
    /\ RatioOfMeansDiffers(run.home[1].df_selection)
    /\ run.home[1].metric_person.text = "fixed"

KeysOf(g) == {g[i].key : i \in DOMAIN g}

GroupIndices(df, col, v) == {i \in DOMAIN df : df[i][col] = v}

RECURSIVE SumOver(_, _, _)
SumOver(df, I, col) ==
    IF I = {} THEN 0
    ELSE LET i == CHOOSE k \in I : TRUE
         IN df[i][col] + SumOver(df, I \ {i}, col)

\* a grouped mean g of Price per Hour over frame df by column col: one entry
\* per value of col in df, each the mean of its rows, the group sums adding
\* up to the frame's sum
IsGroupedMean(g, df, col) ==
    /\ KeysOf(g) = {df[i][col] : i \in DOMAIN df}
    /\ Len(g) = Cardinality(KeysOf(g))
    /\ \A i \in DOMAIN g :
          LET I == GroupIndices(df, col, g[i].key)
          IN /\ g[i].Price_per_hour.den > 0
             /\ g[i].Price_per_hour.num * Cardinality(I)
                    = g[i].Price_per_hour.den * SumOver(df, I, "Price_per_hour")
    /\ SumOf([i \in DOMAIN g |->
                 [s |-> (g[i].Price_per_hour.num
                           * Cardinality(GroupIndices(df, col, g[i].key)))
                        \div g[i].Price_per_hour.den]], "s")
           = SumOf(df, "Price_per_hour")

\* C7: the mean by Capacity Tier and the mean by Time of Day each have one
\* entry per key value occurring in the Filtered Subset and none for a value
\* filtered out, each entry the mean of Price per Hour over its rows, so that
\* the sum of mean x count over the groups is the subset's sum.
C7_GroupedMean ==
    HomeDone =>
        /\ IsGroupedMean(run.home[1].avg_price_by_tier,
                         run.home[1].df_selection, "Capacity_tier")
        /\ IsGroupedMean(run.home[1].avg_price_by_time,
                         run.home[1].df_selection, "Time_of_day")

\* a tier of the sheet filtered out, the tier left holding two rows of
\* different price
C7_Witness ==
    /\ HomeDone
    /\ KeysOf(run.home[1].avg_price_by_tier) # run.home[1].options.Capacity_tier
    /\ \E i \in DOMAIN run.home[1].avg_price_by_tier :
          /\ Cardinality(GroupIndices(run.home[1].df_selection, "Capacity_tier",
                                     run.home[1].avg_price_by_tier[i].key)) = 2
          /\ run.home[1].avg_price_by_tier[i].Price_per_hour.num = 15

\* C8: a Home run in which read_excel fails ends as a failure that shows
\* no filter control, metric, table or chart and no footer, only the
\* sidebar navigation, the logo and the exception; it holds no computed
\* value, whatever an earlier run had shown.
C8_LoadFailureFailsPage ==
    [][ (run' # run /\ ~present /\ run'.branch = "Home") =>
            /\ run'.outcome = "failed"
            /\ Shown(run') \cap (DataElements \cup {"footer"}) = {}
            /\ "exception" \in Shown(run')
            /\ run'.home = <<>> ]_vars

\* a failed run that a filter change started, hence after a run that had
\* rendered the whole Home page
C8_Witness ==
    /\ run.outcome = "failed"
    /\ run.trigger = "filter"
    /\ ~present

\* C9: once set, the Navigation State changes only in the run a click on a
\* navigation button starts; a filter change leaves it and the page on
\* display alone; a click on the button of the page already shown leaves it
\* as it is.
C9_OnlyNavigationChangesPage ==
    [][ /\ ("page" \in DOMAIN session_state /\ session_state' # session_state) =>
              /\ run'.trigger \in {"home_btn", "about_btn"}
              /\ run'.outcome = "rerun"
              /\ pending = "none"
        /\ (run' # run /\ run'.trigger = "filter") =>
              /\ session_state' = session_state
              /\ run'.branch = run.branch
        /\ (run' # run /\ run'.trigger = "home_btn" /\ run.branch = "Home") =>
              session_state' = session_state
        /\ (run' # run /\ run'.trigger = "about_btn" /\ run.branch = "About") =>
              session_state' = session_state ]_vars

\* the Home page still on display after a filter change that dropped rows
C9_Witness ==
    /\ run.trigger = "filter"
    /\ HomeDone
    /\ session_state.page = "Home"
    /\ Len(run.home[1].df_selection) < Len(run.home[1].df)

\* C10 as stated: the run a user interaction starts is a full pass that
\* completes with the footer or fails; none is left part-way.
C10_AsStated ==
    run.trigger \in {"filter", "home_btn", "about_btn"} =>
        /\ run.outcome \in {"completed", "failed"}
        /\ run.outcome = "completed" => "footer" \in Shown(run)

\* C10 amended: a filter change starts one full pass, which completes
\* with the footer as its last element or fails without it.  A click on a
\* navigation button starts a run that st.rerun() stops right after the
\* state is set, with only the sidebar navigation emitted; the run it
\* requests is the one full pass, over the page of the new state, and it
\* completes or fails.  No other run is stopped part-way.
C10_OneFullPassAfterRerun ==
    /\ run.outcome \in {"none", "completed", "failed", "rerun"}
    /\ run.outcome = "completed" =>
          /\ run.elements[Len(run.elements)] = "footer"
          /\ run.branch = session_state.page
    /\ run.outcome = "failed" =>
          /\ "footer" \notin Shown(run)
          /\ run.elements[Len(run.elements)] = "exception"
    /\ run.outcome = "rerun" <=> run.trigger \in {"home_btn", "about_btn"}
    /\ run.outcome = "rerun" <=> pending # "none"
    /\ run.outcome = "rerun" =>
          /\ pending = run.trigger
          /\ Shown(run) \subseteq {"nav_heading", "home_btn", "about_btn"}
          /\ run.branch = "none"
    /\ run.trigger \in {"filter", "rerun", "start"} =>
          run.outcome \in {"completed", "failed"}
    /\ run.trigger = "rerun" =>
          /\ run.after \in {"home_btn", "about_btn"}
          /\ run.branch = (IF run.after = "home_btn" THEN "Home" ELSE "About")
          /\ run.branch = session_state.page

\* the full pass over the Home page that the rerun after a click on Home
\* makes
C10_Witness ==
    /\ run.trigger = "rerun"
    /\ run.after = "home_btn"
    /\ HomeDone
    /\ run.elements[Len(run.elements)] = "footer"

\* a metric that reports "no data"
ReportsNoData(metric) == metric.text = "no data"

\* C2 as stated: after a Home run that completed with an admitted set
\* empty, the Filtered Subset is empty and every aggregate view reports
\* "no data": the two mean metrics say so, and the grouped means, the pivot
\* and the top-5 hold no entry.
C2_EmptySelectionNoData ==
    (HomeDone /\ run.home[1].df # <<>>
       /\ \E c \in DOMAIN run.home[1].selected : run.home[1].selected[c] = {}) =>
        /\ run.home[1].df_selection = <<>>
        /\ ReportsNoData(run.home[1].metric_hour)
        /\ ReportsNoData(run.home[1].metric_person)
        /\ run.home[1].avg_price_by_tier = <<>>
        /\ run.home[1].avg_price_by_time = <<>>
        /\ run.home[1].heatmap_data.index = <<>>
        /\ run.home[1].top_rooms = <<>>
        /\ run.home[1].avg_price_by_duration = <<>>

\* the rows by descending price, rows of equal price in frame order
StableDescending(df) ==
    LET n == Len(df)
        Before(i, j) == \/ df[i].Price_per_hour > df[j].Price_per_hour
                        \/ (df[i].Price_per_hour = df[j].Price_per_hour /\ i < j)
    IN [k \in 1..n |->
          df[CHOOSE i \in 1..n : Cardinality({j \in 1..n : Before(j, i)}) = k - 1]]

\* C5 as stated: the top-5 is the subset by descending Price per Hour, rows
\* of equal price in dataset order, cut to its first five rows (all of them
\* when there are fewer).
C5_StableTopFive ==
    HomeDone =>
        LET sorted == StableDescending(run.home[1].df_selection)
        IN run.home[1].top_rooms =
              SubSeq(sorted, 1, IF Len(sorted) < 5 THEN Len(sorted) ELSE 5)

====
